---- MODULE Spec2Model ----
(***************************************************************************)
(* Model of the H.264 decode pipeline of Tello-Python                      *)
(* (Tello_Video_With_Pose_Recognition/opencv_h264_decoder.py):             *)
(*   OpenCVH264Decoder  - packet accumulation and the decode step          *)
(*   H264Decoder        - the facade with its use_fallback switch          *)
(*   FFmpegH264Decoder  - the subprocess backend                           *)
(*   create_dummy_frame - the synthetic test frame                         *)
(* and of the two calibration scripts, calibrate_tello.py and              *)
(* quick_calibrate.py, as the sequence of commands each gives the drone.   *)
(*                                                                         *)
(* A byte string is a sequence of runs [b |-> byte value, n |-> count] in  *)
(* canonical form (no empty run, adjacent runs differ in b), so that two   *)
(* byte strings are equal iff their run sequences are equal and a buffer   *)
(* of a megabyte is a short sequence.                                      *)
(***************************************************************************)
EXTENDS Integers, Sequences, FiniteSets

VARIABLES
    frame_buffer,     \* OpenCVH264Decoder.frame_buffer of H264Decoder.decoder
    last_frames,      \* OpenCVH264Decoder.last_frames
    use_fallback,     \* H264Decoder.use_fallback
    ffmpeg_available, \* FFmpegH264Decoder.ffmpeg_available
    calls,            \* number of decode calls made so far
    completed,        \* TRUE once a decode call has returned a frame
    last,             \* the most recent decode call, as its caller saw it
    prev,             \* the decode call before it
    pending,          \* the packets given to non-fallback decode since the last
                      \* reset of the buffer, one after the other
    untouched,        \* TRUE while the facade was used through decode alone
    frame_call,       \* the most recent create_dummy_frame call and its outcome
    pc,               \* where the calibration script is
    connected,        \* Tello() has returned a drone
    battery,          \* what the battery check read
    sent,             \* the drone.send_command calls made, and whether each returned
    ticks,            \* seconds left in the IMU countdown
    elapsed,          \* seconds spent in time.sleep so far
    choice,           \* the operator's answer to "Run test flight?"
    ended             \* how the script's function ended

vars == <<frame_buffer, last_frames, use_fallback, ffmpeg_available,
          calls, completed, last, prev, pending, untouched, frame_call,
          pc, connected, battery, sent, ticks, elapsed, choice, ended>>

script_vars == <<pc, connected, battery, sent, ticks, elapsed, choice, ended>>

decoder_vars == <<frame_buffer, last_frames, use_fallback, ffmpeg_available,
                  calls, completed, last, prev, pending, untouched>>

----------------------------------------------------------------------------
(* Bounds of the model *)

\* decode calls explored in one behaviour
MaxCalls == 3

\* create_dummy_frame is explored for width in -2..MaxWidth, height in -2..MaxHeight
MaxWidth == 9

MaxHeight == 10

----------------------------------------------------------------------------
(* Byte strings *)

Run(b, n) == <<[b |-> b, n |-> n]>>

RECURSIVE ByteLen(_)
\* len(...) of a byte string
ByteLen(x) == IF x = <<>> THEN 0 ELSE x[1].n + ByteLen(Tail(x))

\* x followed by y, in canonical form
Concat(x, y) ==
    IF x = <<>> THEN y
    ELSE IF y = <<>> THEN x
    ELSE IF x[Len(x)].b = y[1].b
         THEN SubSeq(x, 1, Len(x) - 1)
                \o Run(y[1].b, x[Len(x)].n + y[1].n)
                \o Tail(y)
         ELSE x \o y

\* The packets handed to decode: empty, one byte, half the limit, a packet of
\* two runs that is exactly the limit long, and one byte more than the limit.
Packets ==
    { <<>>,
      Run(1, 1),
      Run(2, 524288),
      Run(1, 1) \o Run(2, 1048575),
      Run(3, 1048577) }

----------------------------------------------------------------------------
(* OpenCVH264Decoder *)

\* the "1MB limit" of decode's error handler
BUFFER_LIMIT == 1024 * 1024

\* What the backend step of decode's try block does with the buffer: either
\* it is _decode_h264_buffer as shipped, or a backend put in its place that
\* returns the given frames or raises an Exception.  (bytes(self.frame_buffer)
\* failing with MemoryError is the raising case too.)
Shipped == [kind |-> "shipped", frames |-> <<>>]

Returns(frames) == [kind |-> "return", frames |-> frames]

Raises == [kind |-> "raise", frames |-> <<>>]

\* frames are named by numbers: one frame, and two frames in a given order
Backends == { Shipped, Returns(<<1>>), Returns(<<2, 1>>), Raises }

\* _decode_h264_buffer(buffer_bytes) as shipped: frames = []; return frames
decode_h264_buffer(buffer_bytes) == Returns(<<>>)

\* decoded_frames = self._decode_h264_buffer(buffer_bytes), for the backend in place
backend_step(backend, buffer_bytes) ==
    IF backend.kind = "shipped" THEN decode_h264_buffer(buffer_bytes) ELSE backend

\* __init__
NewDecoder == [frame_buffer |-> <<>>, last_frames |-> <<>>]

\* a call as its caller sees it: the object afterwards, the returned list,
\* whether an exception left the call, and whether the backend step ran
Outcome(self, ret, raised, invoked) ==
    [self |-> self, ret |-> ret, raised |-> raised, invoked |-> invoked]

\* extend, with the buffer replaced by the packet instead of appended to
extend_replacing(self, packet_data) ==
    [self EXCEPT !.frame_buffer = packet_data]

\* self.frame_buffer.extend(packet_data)
extend(self, packet_data) ==
    [self EXCEPT !.frame_buffer = Concat(self.frame_buffer, packet_data)]

\* decode_success, without clearing the buffer after a successful decode
decode_success_keeping(self, decoded_frames) ==
    Outcome(self, decoded_frames, FALSE, TRUE)

\* decode_success, keeping the returned frames in self.last_frames
decode_success_caching(self, decoded_frames) ==
    IF decoded_frames # <<>>
    THEN Outcome([self EXCEPT !.frame_buffer = <<>>, !.last_frames = decoded_frames],
                 decoded_frames, FALSE, TRUE)
    ELSE Outcome(self, <<>>, FALSE, TRUE)

\* if decoded_frames: frames = decoded_frames; self.frame_buffer = bytearray()
decode_success(self, decoded_frames) ==
    IF decoded_frames # <<>>
    THEN Outcome([self EXCEPT !.frame_buffer = <<>>], decoded_frames, FALSE, TRUE)
    ELSE Outcome(self, <<>>, FALSE, TRUE)

\* decode_except, clearing already at the limit (>= for >)
decode_except_at_limit(self) ==
    IF ByteLen(self.frame_buffer) >= BUFFER_LIMIT
    THEN Outcome([self EXCEPT !.frame_buffer = <<>>], <<>>, FALSE, TRUE)
    ELSE Outcome(self, <<>>, FALSE, TRUE)

\* decode_except, clearing the buffer on every error
decode_except_always_clearing(self) ==
    Outcome([self EXCEPT !.frame_buffer = <<>>], <<>>, FALSE, TRUE)

\* decode_except, dropping the oldest run of an over-long buffer instead of
\* clearing it
decode_except_trimming(self) ==
    IF ByteLen(self.frame_buffer) > BUFFER_LIMIT
    THEN Outcome([self EXCEPT !.frame_buffer = Tail(self.frame_buffer)],
                 <<>>, FALSE, TRUE)
    ELSE Outcome(self, <<>>, FALSE, TRUE)

\* except Exception: clear the buffer when it is over the limit; frames is
\* still the empty list
decode_except(self) ==
    IF ByteLen(self.frame_buffer) > BUFFER_LIMIT
    THEN Outcome([self EXCEPT !.frame_buffer = <<>>], <<>>, FALSE, TRUE)
    ELSE Outcome(self, <<>>, FALSE, TRUE)

\* decode_try, without the except clause: the backend's exception leaves decode
decode_try_unguarded(self, backend) ==
    LET decoded == backend_step(backend, self.frame_buffer) IN
    IF decoded.kind = "raise"
    THEN Outcome(self, <<>>, TRUE, TRUE)
    ELSE Outcome(IF decoded.frames # <<>>
                 THEN [self EXCEPT !.frame_buffer = <<>>] ELSE self,
                 decoded.frames, FALSE, TRUE)

\* the try statement: the backend step on a copy of the buffer, then the
\* success path or the handler
decode_try(self, backend) ==
    LET decoded == backend_step(backend, self.frame_buffer) IN
    IF decoded.kind = "raise"
    THEN decode_except(self)
    ELSE decode_success(self, decoded.frames)

\* decode, without the early return for an empty packet
OpenCVH264Decoder_decode_no_guard(self, packet_data, backend) ==
    LET appended == [self EXCEPT
                        !.frame_buffer = Concat(self.frame_buffer, packet_data)]
        decoded == backend_step(backend, appended.frame_buffer) IN
    IF decoded.kind = "raise"
    THEN Outcome(IF ByteLen(appended.frame_buffer) > BUFFER_LIMIT
                 THEN [appended EXCEPT !.frame_buffer = <<>>] ELSE appended,
                 <<>>, FALSE, TRUE)
    ELSE Outcome(IF decoded.frames # <<>>
                 THEN [appended EXCEPT !.frame_buffer = <<>>] ELSE appended,
                 decoded.frames, FALSE, TRUE)

\* OpenCVH264Decoder.decode(packet_data)
OpenCVH264Decoder_decode(self, packet_data, backend) ==
    IF packet_data = <<>>
    THEN Outcome(self, <<>>, FALSE, FALSE)
    ELSE decode_try(extend(self, packet_data), backend)

----------------------------------------------------------------------------
(* H264Decoder *)

\* H264Decoder.decode, with the test on use_fallback inverted
H264Decoder_decode_inverted(fallback, decoder, packet_data, backend) ==
    IF fallback
    THEN OpenCVH264Decoder_decode(decoder, packet_data, backend)
    ELSE Outcome(decoder, <<>>, FALSE, FALSE)

\* H264Decoder.decode, still accumulating the packet in fallback mode
H264Decoder_decode_buffering(fallback, decoder, packet_data, backend) ==
    IF ~fallback
    THEN OpenCVH264Decoder_decode(decoder, packet_data, backend)
    ELSE Outcome(extend(decoder, packet_data), <<>>, FALSE, FALSE)

\* H264Decoder.decode(packet_data); decoder is self.decoder
H264Decoder_decode(fallback, decoder, packet_data, backend) ==
    IF ~fallback
    THEN OpenCVH264Decoder_decode(decoder, packet_data, backend)
    ELSE Outcome(decoder, <<>>, FALSE, FALSE)

----------------------------------------------------------------------------
(* FFmpegH264Decoder *)

\* the constructor: import subprocess succeeds, or ImportError is caught
FFmpegH264Decoder_init(import_ok) == [ffmpeg_available |-> import_ok]

\* FFmpegH264Decoder.decode, probing for the tool again on every call
FFmpegH264Decoder_decode_reprobing(self, packet_data) ==
    Outcome([self EXCEPT !.ffmpeg_available = TRUE], <<>>, FALSE, FALSE)

\* FFmpegH264Decoder.decode(packet_data)
FFmpegH264Decoder_decode(self, packet_data) ==
    IF ~self.ffmpeg_available
    THEN Outcome(self, <<>>, FALSE, FALSE)
    ELSE Outcome(self, <<>>, FALSE, FALSE)

----------------------------------------------------------------------------
(* create_dummy_frame *)

\* linspace_uint8, with the stop value 256, which wraps to 0 in a uint8
linspace_uint8_stop256(num) ==
    [i \in 1..num |->
        IF num = 1 THEN 0 ELSE ((256 * (i - 1)) \div (num - 1)) % 256]

\* np.linspace(0, 255, num) stored into a uint8 array: sample i (from 0) is
\* 255 * i / (num - 1), cut to its integer part by the cast; one sample is 0.
\* (The float product and the exact quotient have the same integer part for
\* every num below 106 and for num = 960.)
linspace_uint8(num) ==
    [i \in 1..num |-> IF num = 1 THEN 0 ELSE (255 * (i - 1)) \div (num - 1)]

\* np.zeros((height, width, 3), dtype=np.uint8): rows of columns of channels
zeros(height, width) ==
    [r \in 1..height |-> [c \in 1..width |-> <<0, 0, 0>>]]

\* frame[:, :, 0] = values, broadcast over the rows
set_channel0(frame, values) ==
    [r \in DOMAIN frame |->
        [c \in DOMAIN frame[r] |-> [frame[r][c] EXCEPT ![1] = values[c]]]]

\* the default arguments of create_dummy_frame
DEFAULT_WIDTH == 960

DEFAULT_HEIGHT == 720

\* create_dummy_frame(width, height); np.zeros raises ValueError for a
\* negative dimension and builds an empty array for a zero one
create_dummy_frame(width, height) ==
    IF width < 0 \/ height < 0
    THEN [kind |-> "ValueError", shape |-> <<>>, pix |-> <<>>]
    ELSE [kind |-> "frame",
          shape |-> <<height, width, 3>>,
          pix |-> set_channel0(zeros(height, width), linspace_uint8(width))]

----------------------------------------------------------------------------
(* The calibration scripts *)

\* the battery level below which both scripts refuse to calibrate
MIN_BATTERY == 50

\* range(15, 0, -1): the seconds of the IMU countdown
COUNTDOWN == 15

\* the pauses of the test flight: after takeoff, hovering, after land
TAKEOFF_PAUSE == 1

HOVER_SECONDS == 3

LAND_PAUSE == 2

\* the battery check has not run
Unread == [kind |-> "unread", level |-> 0]

\* the drone has no get_battery
NoGetBattery == [kind |-> "unavailable", level |-> 0]

\* drone.get_battery() raised
BatteryError == [kind |-> "error", level |-> 0]

\* drone.get_battery() returned level
Level(level) == [kind |-> "level", level |-> level]

\* what the battery check can meet
BatteryReadings ==
    { NoGetBattery, BatteryError,
      Level(0), Level(MIN_BATTERY - 1), Level(MIN_BATTERY), Level(100) }

\* battery_check, with the comparison the wrong way round
battery_check_inverted(reading) ==
    IF reading.kind = "level" /\ reading.level > MIN_BATTERY
    THEN "return" ELSE "proceed"

\* quick_calibrate's battery check: return False when a level was read and is
\* below 50; go on when it is sufficient, not available, or could not be read
battery_check(reading) ==
    IF reading.kind = "level" /\ reading.level < MIN_BATTERY
    THEN "return" ELSE "proceed"

\* calibrate_tello's battery check, the same statements
calibrate_battery_check(reading) ==
    IF reading.kind = "level" /\ reading.level < MIN_BATTERY
    THEN "return" ELSE "proceed"

\* a drone.send_command(cmd) call that returned (ok) or raised
Command(cmd, ok) == [cmd |-> cmd, ok |-> ok]

----------------------------------------------------------------------------
(* The record of a call *)

NoCall ==
    [cls |-> "none", fallback |-> FALSE, packet |-> <<>>, backend |-> Shipped,
     before |-> <<>>, after |-> <<>>, ret |-> <<>>, raised |-> FALSE,
     invoked |-> FALSE, available |-> FALSE, available_after |-> FALSE]

\* a call on the facade or on the inner decoder
DecoderCall(cls, fallback, packet, backend, before, out) ==
    [cls |-> cls, fallback |-> fallback, packet |-> packet, backend |-> backend,
     before |-> before, after |-> out.self.frame_buffer, ret |-> out.ret,
     raised |-> out.raised, invoked |-> out.invoked,
     available |-> FALSE, available_after |-> FALSE]

\* a call on the FFmpeg decoder
FFmpegCall(packet, available, out) ==
    [cls |-> "FFmpegH264Decoder", fallback |-> FALSE, packet |-> packet,
     backend |-> Shipped, before |-> <<>>, after |-> <<>>, ret |-> out.ret,
     raised |-> out.raised, invoked |-> out.invoked, available |-> available,
     available_after |-> out.self.ffmpeg_available]

Decoder == [frame_buffer |-> frame_buffer, last_frames |-> last_frames]

\* the packets given to non-fallback decode since the last reset, after a call
\* with packet p: a call that ran the backend step and left the buffer empty
\* has reset it
PendingAfter(fallback, p, out) ==
    IF fallback THEN pending
    ELSE IF out.invoked /\ out.self.frame_buffer = <<>> THEN <<>>
    ELSE Concat(pending, p)

NoFrameCall == [called |-> FALSE, width |-> 0, height |-> 0,
                result |-> [kind |-> "none", shape |-> <<>>, pix |-> <<>>]]

----------------------------------------------------------------------------
(* Actions *)

\* H264Decoder() and FFmpegH264Decoder() have been constructed; no call yet
Init ==
    /\ frame_buffer = NewDecoder.frame_buffer
    /\ last_frames = NewDecoder.last_frames
    /\ use_fallback = TRUE
    /\ \E import_ok \in BOOLEAN :
         ffmpeg_available = FFmpegH264Decoder_init(import_ok).ffmpeg_available
    /\ calls = 0
    /\ completed = FALSE
    /\ last = NoCall
    /\ prev = NoCall
    /\ pending = <<>>
    /\ untouched = TRUE
    /\ frame_call = NoFrameCall
    /\ pc = "start"
    /\ connected = FALSE
    /\ battery = Unread
    /\ sent = <<>>
    /\ ticks = 0
    /\ elapsed = 0
    /\ choice = ""
    /\ ended = "running"

\* facade.decode(p); b is what the backend step would do with the buffer
FacadeDecode ==
    /\ calls < MaxCalls
    /\ \E p \in Packets : \E b \in Backends :
         LET out == H264Decoder_decode(use_fallback, Decoder, p, b) IN
         /\ frame_buffer' = out.self.frame_buffer
         /\ last_frames' = out.self.last_frames
         /\ completed' = (completed \/ out.ret # <<>>)
         /\ last' = DecoderCall("H264Decoder", use_fallback, p, b, frame_buffer, out)
         /\ pending' = PendingAfter(use_fallback, p, out)
    /\ prev' = last
    /\ calls' = calls + 1
    /\ UNCHANGED <<use_fallback, ffmpeg_available, untouched, frame_call, script_vars>>

\* facade.decoder.decode(p): the inner decoder used directly
DirectDecode ==
    /\ calls < MaxCalls
    /\ \E p \in Packets : \E b \in Backends :
         LET out == OpenCVH264Decoder_decode(Decoder, p, b) IN
         /\ frame_buffer' = out.self.frame_buffer
         /\ last_frames' = out.self.last_frames
         /\ completed' = (completed \/ out.ret # <<>>)
         /\ last' = DecoderCall("OpenCVH264Decoder", FALSE, p, b, frame_buffer, out)
         /\ pending' = PendingAfter(FALSE, p, out)
    /\ untouched' = FALSE
    /\ prev' = last
    /\ calls' = calls + 1
    /\ UNCHANGED <<use_fallback, ffmpeg_available, frame_call, script_vars>>

\* facade.use_fallback = v, by the owner of the facade
SetUseFallback ==
    /\ \E v \in BOOLEAN : v # use_fallback /\ use_fallback' = v
    /\ untouched' = FALSE
    /\ UNCHANGED <<frame_buffer, last_frames, ffmpeg_available, calls, completed,
                   last, prev, pending, frame_call, script_vars>>

\* ffmpeg_decoder.decode(p)
FFmpegDecode ==
    /\ calls < MaxCalls
    /\ \E p \in Packets :
         LET out == FFmpegH264Decoder_decode(
                        [ffmpeg_available |-> ffmpeg_available], p) IN
         /\ ffmpeg_available' = out.self.ffmpeg_available
         /\ last' = FFmpegCall(p, ffmpeg_available, out)
    /\ prev' = last
    /\ calls' = calls + 1
    /\ UNCHANGED <<frame_buffer, last_frames, use_fallback, completed, pending,
                   untouched, frame_call, script_vars>>

Next ==
    \/ FacadeDecode
    \/ DirectDecode
    \/ SetUseFallback
    \/ FFmpegDecode

Spec == Init /\ [][Next]_vars

\* OpenCVH264Decoder.create_dummy_frame(width, height).  The method is static
\* and keeps nothing between calls, so one call per behaviour covers it.
CreateDummyFrame ==
    /\ ~frame_call.called
    /\ \E w \in -2..MaxWidth : \E h \in -2..MaxHeight :
         frame_call' = [called |-> TRUE, width |-> w, height |-> h,
                        result |-> create_dummy_frame(w, h)]
    /\ UNCHANGED <<decoder_vars, script_vars>>

\* OpenCVH264Decoder.create_dummy_frame(), with the default arguments
CreateDefaultFrame ==
    /\ ~frame_call.called
    /\ frame_call' = [called |-> TRUE, width |-> DEFAULT_WIDTH,
                      height |-> DEFAULT_HEIGHT,
                      result |-> create_dummy_frame(DEFAULT_WIDTH, DEFAULT_HEIGHT)]
    /\ UNCHANGED <<decoder_vars, script_vars>>

NextFrame ==
    \/ CreateDummyFrame
    \/ CreateDefaultFrame

SpecFrame == Init /\ [][NextFrame]_vars

----------------------------------------------------------------------------
(* quick_calibrate.py *)

\* the function ends: return value, or the exception that leaves it
Finish(how) ==
    /\ pc' = "done"
    /\ ended' = how

\* drone = Tello(), or the failure to connect: return False
QuickConnect ==
    /\ pc = "start"
    /\ \E ok \in BOOLEAN :
         IF ok
         THEN pc' = "battery" /\ connected' = TRUE /\ ended' = ended
         ELSE Finish("False") /\ connected' = connected
    /\ UNCHANGED <<battery, sent, ticks, elapsed, choice, decoder_vars, frame_call>>

\* the battery check
QuickBattery ==
    /\ pc = "battery"
    /\ \E reading \in BatteryReadings :
         /\ battery' = reading
         /\ IF battery_check(reading) = "return"
            THEN Finish("False")
            ELSE pc' = "command" /\ ended' = ended
    /\ UNCHANGED <<connected, sent, ticks, elapsed, choice, decoder_vars, frame_call>>

\* drone.send_command("command"); an Exception from it: return False
QuickCommand ==
    /\ pc = "command"
    /\ \E ok \in BOOLEAN :
         /\ sent' = Append(sent, Command("command", ok))
         /\ IF ok
            THEN pc' = "settle" /\ ended' = ended
            ELSE Finish("False")
    /\ UNCHANGED <<connected, battery, ticks, elapsed, choice, decoder_vars, frame_call>>

\* time.sleep(1) after the command, then the loop starts at 15
QuickSettle ==
    /\ pc = "settle"
    /\ elapsed' = elapsed + 1
    /\ ticks' = COUNTDOWN
    /\ pc' = "countdown"
    /\ UNCHANGED <<connected, battery, sent, choice, ended, decoder_vars, frame_call>>

\* one round of the countdown loop: time.sleep(1)
QuickTick ==
    /\ pc = "countdown"
    /\ ticks > 0
    /\ ticks' = ticks - 1
    /\ elapsed' = elapsed + 1
    /\ UNCHANGED <<pc, connected, battery, sent, choice, ended, decoder_vars,
                   frame_call>>

\* the loop is over: the summary, return True
QuickReturn ==
    /\ pc = "countdown"
    /\ ticks = 0
    /\ Finish("True")
    /\ UNCHANGED <<connected, battery, sent, ticks, elapsed, choice, decoder_vars,
                   frame_call>>

\* Ctrl-C while the script runs: KeyboardInterrupt leaves the function (no
\* handler in it catches it) and reaches the handler of __main__
Interrupt ==
    /\ pc # "done"
    /\ Finish("KeyboardInterrupt")
    /\ UNCHANGED <<connected, battery, sent, ticks, elapsed, choice, decoder_vars,
                   frame_call>>

NextQuick ==
    \/ QuickConnect
    \/ QuickBattery
    \/ QuickCommand
    \/ QuickSettle
    \/ QuickTick
    \/ QuickReturn
    \/ Interrupt

SpecQuick == Init /\ [][NextQuick]_vars

----------------------------------------------------------------------------
(* calibrate_tello.py *)

\* input("Press ENTER to continue..."); EOFError leaves the function
CalStart ==
    /\ pc = "start"
    /\ \E ok \in BOOLEAN :
         IF ok THEN pc' = "connect" /\ ended' = ended ELSE Finish("Exception")
    /\ UNCHANGED <<connected, battery, sent, ticks, elapsed, choice, decoder_vars,
                   frame_call>>

\* drone = Tello(), or the failure to connect: return
CalConnect ==
    /\ pc = "connect"
    /\ \E ok \in BOOLEAN :
         IF ok
         THEN pc' = "battery" /\ connected' = TRUE /\ ended' = ended
         ELSE Finish("None") /\ connected' = connected
    /\ UNCHANGED <<battery, sent, ticks, elapsed, choice, decoder_vars, frame_call>>

\* the battery check
CalBattery ==
    /\ pc = "battery"
    /\ \E reading \in BatteryReadings :
         /\ battery' = reading
         /\ IF calibrate_battery_check(reading) = "return"
            THEN Finish("None")
            ELSE pc' = "command" /\ ended' = ended
    /\ UNCHANGED <<connected, sent, ticks, elapsed, choice, decoder_vars, frame_call>>

\* drone.send_command("command"), outside any try: an Exception leaves the
\* function
CalCommand ==
    /\ pc = "command"
    /\ \E ok \in BOOLEAN :
         /\ sent' = Append(sent, Command("command", ok))
         /\ IF ok
            THEN pc' = "settle" /\ ended' = ended
            ELSE Finish("Exception")
    /\ UNCHANGED <<connected, battery, ticks, elapsed, choice, decoder_vars, frame_call>>

\* time.sleep(1) after the command, then the loop starts at 15
CalSettle ==
    /\ pc = "settle"
    /\ elapsed' = elapsed + 1
    /\ ticks' = COUNTDOWN
    /\ pc' = "countdown"
    /\ UNCHANGED <<connected, battery, sent, choice, ended, decoder_vars, frame_call>>

\* one round of the countdown loop: time.sleep(1)
CalTick ==
    /\ pc = "countdown"
    /\ ticks > 0
    /\ ticks' = ticks - 1
    /\ elapsed' = elapsed + 1
    /\ UNCHANGED <<pc, connected, battery, sent, choice, ended, decoder_vars,
                   frame_call>>

\* choice = input("Run test flight? ..."): "1" starts the test flight, anything
\* else skips it; EOFError leaves the function
CalChoice ==
    /\ pc = "countdown"
    /\ ticks = 0
    /\ \/ \E c \in {"1", "2", "yes"} :
            /\ choice' = c
            /\ IF c = "1"
               THEN pc' = "takeoff" /\ ended' = ended
               ELSE Finish("None")
       \/ Finish("Exception") /\ choice' = choice
    /\ UNCHANGED <<connected, battery, sent, ticks, elapsed, decoder_vars, frame_call>>

\* drone.send_command("takeoff") in the try block; an Exception from it goes to
\* the handler, which prints it, and the function goes on to its end
CalTakeoff ==
    /\ pc = "takeoff"
    /\ \E ok \in BOOLEAN :
         /\ sent' = Append(sent, Command("takeoff", ok))
         /\ IF ok
            THEN pc' = "climb" /\ ended' = ended
            ELSE Finish("None")
    /\ UNCHANGED <<connected, battery, ticks, elapsed, choice, decoder_vars, frame_call>>

\* time.sleep(1) after takeoff
CalClimb ==
    /\ pc = "climb"
    /\ elapsed' = elapsed + TAKEOFF_PAUSE
    /\ pc' = "hover"
    /\ UNCHANGED <<connected, battery, sent, ticks, choice, ended, decoder_vars,
                   frame_call>>

\* time.sleep(3): hovering
CalHover ==
    /\ pc = "hover"
    /\ elapsed' = elapsed + HOVER_SECONDS
    /\ pc' = "land"
    /\ UNCHANGED <<connected, battery, sent, ticks, choice, ended, decoder_vars,
                   frame_call>>

\* drone.send_command("land"); an Exception from it goes to the same handler
CalLand ==
    /\ pc = "land"
    /\ \E ok \in BOOLEAN :
         /\ sent' = Append(sent, Command("land", ok))
         /\ IF ok
            THEN pc' = "landed" /\ ended' = ended
            ELSE Finish("None")
    /\ UNCHANGED <<connected, battery, ticks, elapsed, choice, decoder_vars, frame_call>>

\* time.sleep(2) after land, the observations, and the end of the function
CalLanded ==
    /\ pc = "landed"
    /\ elapsed' = elapsed + LAND_PAUSE
    /\ Finish("None")
    /\ UNCHANGED <<connected, battery, sent, ticks, choice, decoder_vars, frame_call>>

NextCalibrate ==
    \/ CalStart
    \/ CalConnect
    \/ CalBattery
    \/ CalCommand
    \/ CalSettle
    \/ CalTick
    \/ CalChoice
    \/ CalTakeoff
    \/ CalClimb
    \/ CalHover
    \/ CalLand
    \/ CalLanded
    \/ Interrupt

SpecCalibrate == Init /\ [][NextCalibrate]_vars

----------------------------------------------------------------------------
(* Properties *)

\* the ceiling the specification gives for the accumulated buffer
Ceiling == 1048576

\* a call on the facade or on the inner decoder
IsDecoderCall(c) == c.cls \in {"H264Decoder", "OpenCVH264Decoder"}

\* a call that gets as far as the backend step
IsBackendCall(c) == IsDecoderCall(c) /\ ~c.fallback /\ c.packet # <<>>

\* what the backend step did in call c
Decoded(c) == backend_step(c.backend, Concat(c.before, c.packet))

\* C1: no decode call on the facade (fallback on or off) or on the inner
\* decoder raises; each returns a list of frames, also when the backend step
\* raises.
C1_DecodeNeverRaises ==
    IsDecoderCall(last) => ~last.raised /\ last.ret \in Seq({1, 2})

C1_Witness ==
    /\ last.cls = "H264Decoder" /\ IsBackendCall(last)
    /\ Decoded(last).kind = "raise"
    /\ prev.cls = "OpenCVH264Decoder" /\ ~prev.raised
    /\ ~last.raised /\ last.ret = <<>>

\* C2: with use_fallback true, H264Decoder.decode returns an empty list,
\* whatever the packet and whatever earlier calls left in the buffer.
C2_FallbackReturnsEmpty ==
    (last.cls = "H264Decoder" /\ last.fallback) => last.ret = <<>>

C2_Witness ==
    /\ last.cls = "H264Decoder" /\ last.fallback
    /\ last.packet # <<>> /\ last.before # <<>>
    /\ last.backend.frames # <<>>
    /\ IsBackendCall(prev)
    /\ last.ret = <<>>

\* C3: with fallback off and a backend that never completes a frame, the
\* buffer is at most the ceiling long after every decode call.
C3_BufferWithinCeiling ==
    (IsDecoderCall(last) /\ ~last.fallback /\ ~completed)
        => ByteLen(frame_buffer) <= Ceiling

\* C4: decode with an empty packet returns an empty list and leaves the buffer
\* as it was, without running the backend step, even above the ceiling.
C4_EmptyPacketNoOp ==
    (IsDecoderCall(last) /\ last.packet = <<>>)
        => /\ last.ret = <<>>
           /\ ~last.raised
           /\ ~last.invoked
           /\ last.after = last.before
           /\ frame_buffer = last.before

C4_Witness ==
    /\ IsDecoderCall(last) /\ ~last.fallback /\ last.packet = <<>>
    /\ ByteLen(last.before) > Ceiling
    /\ last.backend.kind = "raise"
    /\ frame_buffer = last.before

\* C5: two consecutive non-fallback decode calls with packets p1 then p2,
\* neither returning a frame and the total within the ceiling, leave the
\* buffer as it was before the first, followed by p1, followed by p2.
C5_TwoCallsConcatenate ==
    LET total == Concat(Concat(prev.before, prev.packet), last.packet) IN
    (/\ IsDecoderCall(prev) /\ ~prev.fallback /\ prev.ret = <<>>
     /\ IsDecoderCall(last) /\ ~last.fallback /\ last.ret = <<>>
     /\ ByteLen(total) <= Ceiling)
        => frame_buffer = total

C5_Witness ==
    /\ IsBackendCall(prev) /\ IsBackendCall(last)
    /\ prev.ret = <<>> /\ last.ret = <<>>
    /\ prev.before # <<>>
    /\ prev.packet # last.packet
    /\ ByteLen(frame_buffer) <= Ceiling
    /\ frame_buffer = Concat(Concat(prev.before, prev.packet), last.packet)

\* C6: in a non-fallback decode call whose backend step returns frames, decode
\* returns those frames in that order and the buffer is empty afterwards; when
\* it returns none and the buffer is within the ceiling, the buffer (with the
\* new packet) is kept.
C6_SuccessClearsElseRetains ==
    (IsBackendCall(last) /\ Decoded(last).kind = "return")
        => IF Decoded(last).frames # <<>>
           THEN last.ret = Decoded(last).frames /\ frame_buffer = <<>>
           ELSE ByteLen(Concat(last.before, last.packet)) <= Ceiling
                    => /\ last.ret = <<>>
                       /\ frame_buffer = Concat(last.before, last.packet)

C6_Witness ==
    /\ IsBackendCall(last) /\ Decoded(last) = Returns(<<2, 1>>)
    /\ last.before # <<>>
    /\ last.ret = <<2, 1>> /\ frame_buffer = <<>>
    /\ IsBackendCall(prev) /\ Decoded(prev) = Returns(<<>>)
    /\ prev.after = Concat(prev.before, prev.packet)

\* C7: create_dummy_frame fails whenever width <= 0 or height <= 0; it returns
\* no frame for a non-positive dimension.
C7_NonPositiveDimensionFails ==
    (frame_call.called /\ (frame_call.width <= 0 \/ frame_call.height <= 0))
        => frame_call.result.kind # "frame"

\* the shape and the channels of a frame of height rows and width columns:
\* 3 channels of 8 bits, channel 0 non-decreasing along each row and 0 in the
\* first column, channels 1 and 2 zero
IsGradientFrame(result, width, height) ==
    /\ result.kind = "frame"
    /\ result.shape = <<height, width, 3>>
    /\ Len(result.pix) = height
    /\ \A r \in 1..height :
         /\ Len(result.pix[r]) = width
         /\ result.pix[r][1][1] = 0
         /\ \A c \in 1..width :
              /\ Len(result.pix[r][c]) = 3
              /\ result.pix[r][c][1] \in 0..255
              /\ result.pix[r][c][2] = 0
              /\ result.pix[r][c][3] = 0
              /\ c < width => result.pix[r][c][1] <= result.pix[r][c + 1][1]

\* channel 0 is 255 in the last column of every row
LastColumnIs255(result, width, height) ==
    \A r \in 1..height : result.pix[r][width][1] = 255

\* C8 as stated: for positive dimensions the frame has height rows, width
\* columns and 3 channels; channel 0 is non-decreasing along each row, 0 in
\* the first column and 255 in the last; channels 1 and 2 are 0.
C8_GradientTo255 ==
    (frame_call.called /\ frame_call.width > 0 /\ frame_call.height > 0)
        => /\ IsGradientFrame(frame_call.result, frame_call.width, frame_call.height)
           /\ LastColumnIs255(frame_call.result, frame_call.width, frame_call.height)

\* C8, amended: as stated, with the last column 255 when width >= 2; a frame
\* one column wide is 0 in its only column.
C8_GradientTo255FromWidth2 ==
    (frame_call.called /\ frame_call.width > 0 /\ frame_call.height > 0)
        => /\ IsGradientFrame(frame_call.result, frame_call.width, frame_call.height)
           /\ IF frame_call.width >= 2
              THEN LastColumnIs255(frame_call.result, frame_call.width,
                                   frame_call.height)
              ELSE \A r \in 1..frame_call.height : frame_call.result.pix[r][1][1] = 0

C8_Witness ==
    /\ frame_call.called /\ frame_call.width = 4 /\ frame_call.height = 2
    /\ frame_call.result.pix[2] = << <<0, 0, 0>>, <<85, 0, 0>>, <<170, 0, 0>>,
                                     <<255, 0, 0>> >>

\* C9: FFmpegH264Decoder.decode never raises; with the tool found unavailable
\* at construction every call returns an empty list, and no decode call
\* changes ffmpeg_available.
C9_FFmpegDegradesPermanently ==
    (last.cls = "FFmpegH264Decoder")
        => /\ ~last.raised
           /\ ~last.available => last.ret = <<>>
           /\ last.available_after = last.available
           /\ ffmpeg_available = last.available

C9_Witness ==
    /\ last.cls = "FFmpegH264Decoder" /\ prev.cls = "FFmpegH264Decoder"
    /\ ~prev.available /\ ~last.available /\ ~ffmpeg_available
    /\ last.packet # <<>> /\ last.ret = <<>>

\* C10: when the backend step raises in a non-fallback decode call, decode
\* returns an empty list without raising, and the buffer, which already holds
\* the new packet, is emptied iff it is longer than 1,048,576 bytes.
C10_RaiseResetsOnlyAboveCeiling ==
    LET appended == Concat(last.before, last.packet) IN
    (IsBackendCall(last) /\ Decoded(last).kind = "raise")
        => /\ ~last.raised
           /\ last.ret = <<>>
           /\ frame_buffer = IF ByteLen(appended) > Ceiling THEN <<>> ELSE appended

C10_Witness ==
    /\ IsBackendCall(last) /\ Decoded(last).kind = "raise"
    /\ ByteLen(Concat(last.before, last.packet)) = Ceiling
    /\ frame_buffer = Concat(last.before, last.packet)
    /\ IsBackendCall(prev) /\ Decoded(prev).kind = "raise"
    /\ ByteLen(Concat(prev.before, prev.packet)) > Ceiling
    /\ prev.after = <<>>

\* C11 as stated: after a decode call in which the backend step raised, the
\* buffer is empty, whatever its size was.
C11_RaiseAlwaysClears ==
    (IsBackendCall(last) /\ Decoded(last).kind = "raise") => frame_buffer = <<>>

\* C11, amended: after a decode call in which the backend step raised, the
\* buffer is empty when it had grown beyond 1,048,576 bytes and otherwise still
\* holds everything, the new packet included.
C11_RaiseClearsOnlyOverflow ==
    (IsBackendCall(last) /\ Decoded(last).kind = "raise")
        => /\ frame_buffer = <<>> <=> ByteLen(last.before) + ByteLen(last.packet) > Ceiling
           /\ frame_buffer # <<>> => frame_buffer = Concat(last.before, last.packet)

C11_Witness ==
    /\ IsBackendCall(last) /\ Decoded(last).kind = "raise"
    /\ last.before # <<>>
    /\ frame_buffer # <<>>
    /\ ByteLen(frame_buffer) < Ceiling

\* C12: the buffer is only ever discarded in full: it is empty, or it is the
\* packets given to non-fallback decode since the last reset (or since
\* construction), in arrival order, nothing dropped, moved or repeated.
C12_DiscardedInFullNeverTrimmed ==
    frame_buffer = <<>> \/ frame_buffer = pending

C12_Witness ==
    /\ completed
    /\ IsBackendCall(prev) /\ IsBackendCall(last)
    /\ prev.before = <<>>
    /\ prev.packet # last.packet
    /\ ByteLen(frame_buffer) > Ceiling
    /\ frame_buffer = prev.packet \o last.packet

\* C13: a facade decode call in fallback mode does no backend work and leaves
\* the inner buffer as it was; a facade used through decode alone keeps
\* use_fallback true and an empty buffer.
C13_FallbackDoesNoWork ==
    /\ (last.cls = "H264Decoder" /\ last.fallback)
          => /\ ~last.invoked
             /\ last.after = last.before
             /\ frame_buffer = last.before
    /\ untouched => use_fallback /\ frame_buffer = <<>> /\ pending = <<>>

C13_Witness ==
    /\ untouched /\ calls >= 2
    /\ last.cls = "H264Decoder" /\ prev.cls = "H264Decoder"
    /\ last.packet # <<>> /\ prev.packet # <<>>
    /\ last.backend.kind = "return" /\ prev.backend.kind = "raise"
    /\ use_fallback /\ frame_buffer = <<>>

\* C16: the decoder keeps no reference to the frames it has returned:
\* last_frames is the empty list of construction after any decode calls.
C16_LastFramesStaysEmpty ==
    last_frames = NewDecoder.last_frames /\ last_frames = <<>>

C16_Witness ==
    /\ IsBackendCall(last) /\ last.ret = <<2, 1>>
    /\ IsBackendCall(prev) /\ prev.ret = <<1>>
    /\ last_frames = <<>>

\* position i of sent is a call of drone.send_command(cmd)
SentAt(i, cmd) == i \in 1..Len(sent) /\ sent[i].cmd = cmd

\* C14: in calibrate_tello, once the takeoff command has been sent, the land
\* command is sent after it before the script finishes, on every path.
C14_LandFollowsTakeoff ==
    (pc = "done" /\ choice = "1")
        => \A i \in 1..Len(sent) :
              SentAt(i, "takeoff") => \E j \in (i + 1)..Len(sent) : SentAt(j, "land")

\* C15: quick_calibrate sends nothing unless the connection succeeded; with a
\* battery level read and below 50 it returns False and "command" is never
\* sent; it returns True only after "command" was sent without error and the
\* 15 seconds of the countdown have passed.
C15_QuickCalibrateGuards ==
    /\ sent # <<>> => connected
    /\ (battery.kind = "level" /\ battery.level < 50)
          => sent = <<>> /\ pc = "done" /\ ended = "False"
    /\ ended = "True"
          => /\ sent = <<Command("command", TRUE)>>
             /\ ticks = 0
             /\ elapsed = 1 + 15

C15_Witness ==
    /\ pc = "done" /\ ended = "True"
    /\ battery = Level(50)
    /\ connected
    /\ elapsed = 16

====
